---- MODULE Spec2Model ----
(***************************************************************************)
(* HistopathologyImageMaker (src/HistImageMaker.py): the three build       *)
(* operations that reconstruct a slide image from a directory of patches.  *)
(*                                                                         *)
(* A file name is a sequence of one-character strings.  The canvas is its  *)
(* size and the ordered list of paste operations made on it; the colour of *)
(* a pixel is that of the last paste covering it (PixelAt).                *)
(***************************************************************************)
EXTENDS Integers, Sequences, FiniteSets, TLC

\* ------------------------------------------------------------------ bounds
\* Most entries a directory listing holds.
MaxFiles == 4
\* Most digits of a coordinate in the generated names of SpecParse.
MaxDigits == 2

\* ------------------------------------------------------- program constants
\* Side of the green block (and of a patch of the data set).
PatchSize == 50
\* img[1:-10]: the characters cut from the end of the name.
SuffixCut == 10
\* img_dir[idx][-5]: the place of the class digit, counted from the end.
ClassPos == 5

\* ----------------------------------------------------------- Python strings
Digits == <<"0", "1", "2", "3", "4", "5", "6", "7", "8", "9">>

IsDigit(c) == \E d \in 1..10 : Digits[d] = c

DigitVal(c) == (CHOOSE d \in 1..10 : Digits[d] = c) - 1

Max(a, b) == IF a > b THEN a ELSE b

Min(a, b) == IF a < b THEN a ELSE b

\* s[a:b] of Python for a >= 0 and any b (a negative b counts from the end).
PySlice(s, a, b) ==
    LET n    == Len(s)
        stop == IF b < 0 THEN Max(n + b, 0) ELSE Min(b, n)
        strt == Min(a, n)
    IN  IF strt >= stop THEN <<>> ELSE SubSeq(s, strt + 1, stop)

\* s[:-1]
DropLast(s) == PySlice(s, 0, -1)

\* s[-k], defined for 1 <= k <= Len(s).
FromEnd(s, k) == s[Len(s) - k + 1]

\* s.split(sep): the pieces between the occurrences of the character sep.
RECURSIVE SplitFrom(_, _, _, _)
SplitFrom(s, sep, i, cur) ==
    IF i > Len(s) THEN <<cur>>
    ELSE IF s[i] = sep THEN <<cur>> \o SplitFrom(s, sep, i + 1, <<>>)
    ELSE SplitFrom(s, sep, i + 1, Append(cur, s[i]))

Split(s, sep) == SplitFrom(s, sep, 1, <<>>)

\* int(s) accepts an optional sign and decimal digits, single underscores
\* allowed between digits.  (The names of the model hold no white space,
\* which int() would strip.)
IntBody(s) == IF Len(s) > 0 /\ s[1] \in {"+", "-"} THEN Tail(s) ELSE s

PyIntOk(s) ==
    LET b == IntBody(s)
    IN  /\ Len(b) > 0
        /\ IsDigit(b[1])
        /\ IsDigit(b[Len(b)])
        /\ \A i \in 1..Len(b) : IsDigit(b[i]) \/ b[i] = "_"
        /\ \A i \in 1..(Len(b) - 1) : ~(b[i] = "_" /\ b[i + 1] = "_")

RECURSIVE DigitsValue(_)
DigitsValue(b) ==
    IF Len(b) = 0 THEN 0
    ELSE IF b[Len(b)] = "_" THEN DigitsValue(DropLast(b))
    ELSE 10 * DigitsValue(DropLast(b)) + DigitVal(b[Len(b)])

PyInt(s) ==
    IF Len(s) > 0 /\ s[1] = "-" THEN 0 - DigitsValue(IntBody(s))
    ELSE DigitsValue(IntBody(s))

\* ------------------------------------------------------- coordinate parsing
\* x, y = img[1:-10].split('y') ; x, y = int(x[:-1]), int(y[:-1])
\* The unpacking needs exactly two pieces, and int() a valid literal: both
\* raise ValueError otherwise.
NameCoreShort(img) == PySlice(img, 1, 1 - SuffixCut)

\* img[1:-10]
NameCore(img) == PySlice(img, 1, 0 - SuffixCut)

\* [ok, x, y]: ok is FALSE when a ValueError is raised.
Parse(img) ==
    LET parts == Split(NameCore(img), "y")
        xs    == DropLast(parts[1])
        ys    == DropLast(parts[2])
    IN  IF Len(parts) = 2 /\ PyIntOk(xs) /\ PyIntOk(ys)
        THEN [ok |-> TRUE, x |-> PyInt(xs), y |-> PyInt(ys)]
        ELSE [ok |-> FALSE, x |-> 0, y |-> 0]

\* ------------------------------------------------------------- file names
\* <lead><X>_y<Y>_class<C>.<ext>
Suffix(c, ext) == <<"_", "c", "l", "a", "s", "s", c, ".">> \o ext

MkName(lead, xd, yd, c, ext) == lead \o xd \o <<"_", "y">> \o yd \o Suffix(c, ext)

Png == <<"p", "n", "g">>

\* The lead of the names the coordinate parsing reads: one character.
LeadX == <<"x">>

\* The lead of the convention _x<X>_y<Y>_class<C>.<ext>.
LeadUX == <<"_", "x">>

\* The entries a directory of the model may hold: a 2 x 2 grid of class-0
\* patches, a class-1 patch on the first place of the grid, a name of the
\* convention _x<X>_y<Y>_class<C>.<ext>, and a name with a two-letter
\* extension.
GridNames ==
    { MkName(LeadX, xd, yd, "0", Png) : xd \in {<<"0">>, <<"5", "0">>},
                                         yd \in {<<"0">>, <<"5", "0">>} }

Name00c1 == MkName(LeadX, <<"0">>, <<"0">>, "1", Png)

NameUX == MkName(LeadUX, <<"1", "2", "0">>, <<"3", "4", "0">>, "0", Png)

NameShortExt == MkName(LeadX, <<"1", "2">>, <<"3", "4">>, "0", <<"p", "y">>)

DirNames == GridNames \cup {Name00c1, NameUX, NameShortExt}

Injective(s) == \A i, j \in 1..Len(s) : i # j => s[i] # s[j]

\* What os.listdir may return: the entries of a directory in any order.
Listings ==
    { s \in UNION { [1..n -> DirNames] : n \in 0..MaxFiles } : Injective(s) }

\* ---------------------------------------------------------------- arguments
\* dir: a str naming a directory, with or without the trailing separator
\* that dir + img_dir[idx] needs; a str naming no directory; an int (for
\* which os.path.isdir answers False); None (on which os.path.isdir itself
\* raises TypeError); a bytes or PathLike naming a directory.
DirKinds == {"str_slash", "str_noslash", "str_missing", "int", "none", "bytes_dir"}

DstKinds == {"str", "nonstr"}

IsStr(a) == a \in {"str_slash", "str_noslash", "str_missing", "str"}

\* os.path.isdir(dir): "true", "false", or "raise" (TypeError from os.stat).
IsDir(d) ==
    IF d = "none" THEN "raise"
    ELSE IF d \in {"str_slash", "str_noslash", "bytes_dir"} THEN "true"
    ELSE "false"

\* The exception of the three argument checks, "" when they pass.
ArgError(d, t) ==
    IF IsDir(d) = "raise" THEN "TypeError"
    ELSE IF IsDir(d) # "true" THEN "OSError"
    ELSE IF ~IsStr(d) THEN "TypeError"
    ELSE IF ~IsStr(t) THEN "TypeError"
    ELSE ""

\* dir + img_dir[idx] names the patch only when dir ends with the separator.
PathResolves(d) == d = "str_slash"

\* ------------------------------------------------------------ gathering loop
UpdateMaxFlipped(m, v) == IF v < m THEN v ELSE m

\* if x > max_x: max_x = x
UpdateMax(m, v) == IF v > m THEN v ELSE m

\* The loop over img_dir from entry i on, started with the lists and maxima
\* g; it stops at the first entry whose parsing raises.
RECURSIVE GatherLoop(_, _, _)
GatherLoop(names, i, g) ==
    IF i > Len(names) THEN g
    ELSE LET p == Parse(names[i])
         IN  IF ~p.ok THEN [g EXCEPT !.ok = FALSE]
             ELSE GatherLoop(names, i + 1,
                     [ok     |-> TRUE,
                      x_list |-> Append(g.x_list, p.x),
                      y_list |-> Append(g.y_list, p.y),
                      max_x  |-> UpdateMax(g.max_x, p.x),
                      max_y  |-> UpdateMax(g.max_y, p.y)])

GatherStart == [ok |-> TRUE, x_list |-> <<>>, y_list |-> <<>>, max_x |-> 0, max_y |-> 0]

\* ------------------------------------------------------------------- canvas
Green == <<"green">>

White == <<"white">>

\* Image.new(mode = 'RGB', size = (w, h), color = (255,255,255))
NewImage(w, h) == [size |-> <<w, h>>, pastes |-> <<>>]

\* image.paste(src, (x, y)): src is a file name (its bitmap) or Green.
Paste(image, src, x, y) ==
    [image EXCEPT !.pastes = Append(@, [src |-> src, x |-> x, y |-> y])]

Covers(p, px, py) ==
    /\ p.x <= px /\ px < p.x + PatchSize
    /\ p.y <= py /\ py < p.y + PatchSize

\* The colour of pixel (px, py) of the image: pixel (dx, dy) of the last
\* bitmap pasted over it, or white.
PixelAt(image, px, py) ==
    LET hits == { k \in 1..Len(image.pastes) : Covers(image.pastes[k], px, py) }
    IN  IF hits = {} THEN [src |-> White, dx |-> 0, dy |-> 0]
        ELSE LET p == image.pastes[CHOOSE k \in hits : \A j \in hits : j <= k]
             IN  IF p.src = Green THEN [src |-> Green, dx |-> 0, dy |-> 0]
                 ELSE [src |-> p.src, dx |-> px - p.x, dy |-> py - p.y]

\* --------------------------------------------------------------- classifier
\* A logit is an integer count of units of 2^-27 and lies near zero, where
\* the threshold is decided; Half is 0.5 in units of 2^-25, the spacing of
\* float32 just below 0.5 (it is 2^-24 just above).
Half == 16777216

\* n / d rounded to the nearest integer, ties to even (n >= 0, d > 0).
RoundHalfEven(n, d) ==
    LET q == n \div d
        r == n % d
    IN  IF 2 * r > d \/ (2 * r = d /\ q % 2 = 1) THEN q + 1 ELSE q

\* torch.sigmoid on float32: 0.5 + logit / 4 near zero, rounded to float32.
Sigmoid(l) ==
    IF l >= 0 THEN Half + 2 * RoundHalfEven(l, 32)
    ELSE Half - RoundHalfEven(0 - l, 16)

Models == {"net", "broken"}

Logit(l) == [raises |-> FALSE, nan |-> FALSE, logit |-> l]

NaN == [raises |-> FALSE, nan |-> TRUE, logit |-> 0]

Raises == [raises |-> TRUE, nan |-> FALSE, logit |-> 0]

\* self.model(tensor)[:,:1].squeeze(1) for the patch img.  A classifier is a
\* function of the bitmap, which the name stands for: "net" answers the
\* patches of the grid with logits below, at, just above and well above
\* zero, and the patch with the short extension with NaN; "broken" raises
\* on the class-1 patch and answers the others as "net" does.
ModelOut(m, img) ==
    LET p == Parse(img)
    IN  IF FromEnd(img, ClassPos) = "1"
        THEN (IF m = "broken" THEN Raises ELSE Logit(1024))
        ELSE IF img = NameShortExt THEN NaN
        ELSE IF p.x = 0 /\ p.y = 0 THEN Logit(-1024)
        ELSE IF p.x > 0 /\ p.y = 0 THEN Logit(0)
        ELSE IF p.x = 0 /\ p.y > 0 THEN Logit(1)
        ELSE Logit(1024)

PredictedFlipped(out) == IF ~out.nan /\ Sigmoid(out.logit) > Half THEN 0 ELSE 1

\* predicted = 1 if torch.sigmoid(output) > 0.5 else 0  (NaN > 0.5 is False)
Predicted(out) == IF ~out.nan /\ Sigmoid(out.logit) > Half THEN 1 ELSE 0

\* -------------------------------------------------------------------- state
VARIABLES
    mode,        \* which build operation runs
    dir, dst,    \* the kinds of its two arguments
    model,       \* self.model, the classifier given to the constructor
    pc,          \* "start", "listdir", "gather", "loop", "done", "failed"
    error,       \* the exception that ended the call, "" when none
    img_dir,     \* os.listdir(dir)
    x_list, y_list, max_x, max_y,
    hist_image,  \* <<>> before Image.new, <<image>> after
    idx,         \* patches handled by the building loop
    eval_mode,   \* self.model.eval() was called
    calls,       \* forward passes of the model
    out_file,    \* dst + ".png": "absent", "complete" or "partial"
    saves,       \* calls of hist_image.save
    steps        \* the stages passed, in order

vars == <<mode, dir, dst, model, pc, error, img_dir, x_list, y_list, max_x,
          max_y, hist_image, idx, eval_mode, calls, out_file, saves, steps>>

Modes == {"plain", "truelabel", "predicted"}

\* The classifier matters to the predicted build alone: the other two are
\* started with one classifier.
Init ==
    /\ mode \in Modes
    /\ dir \in DirKinds
    /\ dst \in DstKinds
    /\ model \in Models
    /\ mode # "predicted" => model = "net"
    /\ pc = "start"
    /\ error = ""
    /\ img_dir = <<>>
    /\ x_list = <<>> /\ y_list = <<>> /\ max_x = 0 /\ max_y = 0
    /\ hist_image = <<>>
    /\ idx = 0
    /\ eval_mode = FALSE
    /\ calls = 0
    /\ out_file = "absent"
    /\ saves = 0
    /\ steps = <<>>

Raise(e) == pc' = "failed" /\ error' = e

\* The three checks that open each build operation.
CheckArgs ==
    /\ pc = "start"
    /\ IF ArgError(dir, dst) = ""
       THEN pc' = "listdir" /\ error' = error
       ELSE Raise(ArgError(dir, dst))
    /\ UNCHANGED <<mode, dir, dst, model, img_dir, x_list, y_list, max_x, max_y,
                   hist_image, idx, eval_mode, calls, out_file, saves, steps>>

\* img_dir = os.listdir(dir)
ListDir ==
    /\ pc = "listdir"
    /\ \E l \in Listings : img_dir' = l
    /\ pc' = "gather"
    /\ steps' = Append(steps, "Enumerate")
    /\ UNCHANGED <<mode, dir, dst, model, error, x_list, y_list, max_x, max_y,
                   hist_image, idx, eval_mode, calls, out_file, saves>>

\* os.listdir(dir) raises (the directory cannot be read).
ListDirFail ==
    /\ pc = "listdir"
    /\ Raise("OSError")
    /\ UNCHANGED <<mode, dir, dst, model, img_dir, x_list, y_list, max_x, max_y,
                   hist_image, idx, eval_mode, calls, out_file, saves, steps>>

\* The gathering loop, then Image.new of size (max_x, max_y) (and, in the
\* predicted build, self.model.eval()).
Gather ==
    /\ pc = "gather"
    /\ LET g == GatherLoop(img_dir, 1, GatherStart)
       IN  /\ x_list' = g.x_list /\ y_list' = g.y_list
           /\ max_x' = g.max_x /\ max_y' = g.max_y
           /\ IF g.ok
              THEN /\ hist_image' = <<NewImage(g.max_x, g.max_y)>>
                   /\ eval_mode' = (mode = "predicted")
                   /\ pc' = "loop" /\ error' = error
                   /\ steps' = Append(steps, "ComputeCanvasSize")
              ELSE /\ Raise("ValueError")
                   /\ UNCHANGED <<hist_image, eval_mode, steps>>
    /\ UNCHANGED <<mode, dir, dst, model, img_dir, idx, calls, out_file, saves>>

LoopDoneEarly(i, n) == i >= n - 1

\* range(len(img_dir)) is exhausted
LoopDone(i, n) == i >= n

Current == img_dir[idx + 1]

\* Whether the iteration opens the patch file: always, but for the entries
\* the ground-truth build replaces (img_dir[idx][-5] is not "0").
Opens == mode # "truelabel" \/ FromEnd(Current, ClassPos) = "0"

\* The decision on the patch img: 1 pastes the green block.
DecideFor(img) ==
    IF mode = "plain" THEN 0
    ELSE IF mode = "truelabel" THEN (IF FromEnd(img, ClassPos) = "0" THEN 0 ELSE 1)
    ELSE Predicted(ModelOut(model, img))

Decide == DecideFor(Current)

\* The predicted build opens the patch before it decides; the other two
\* have decided by then.
DecidedBeforeOpen == IF mode = "predicted" THEN <<>> ELSE <<"Decide">>

\* Image.open(dir + img_dir[idx]) or the decoding of the patch raises: the
\* path names no file, or the file is no image.
OpenFail ==
    /\ pc = "loop" /\ ~LoopDone(idx, Len(img_dir))
    /\ Opens
    /\ Raise("OSError")
    /\ steps' = steps \o DecidedBeforeOpen
    /\ UNCHANGED <<mode, dir, dst, model, img_dir, x_list, y_list, max_x, max_y,
                   hist_image, idx, eval_mode, calls, out_file, saves>>

\* self.model(tensor) raises.
ModelFail ==
    /\ pc = "loop" /\ ~LoopDone(idx, Len(img_dir))
    /\ mode = "predicted" /\ PathResolves(dir)
    /\ ModelOut(model, Current).raises
    /\ calls' = calls + 1
    /\ Raise("RuntimeError")
    /\ UNCHANGED <<mode, dir, dst, model, img_dir, x_list, y_list, max_x, max_y,
                   hist_image, idx, eval_mode, out_file, saves, steps>>

\* One iteration of the building loop that pastes.
PasteStep ==
    /\ pc = "loop" /\ ~LoopDone(idx, Len(img_dir))
    /\ Opens => PathResolves(dir)
    /\ mode = "predicted" => ~ModelOut(model, Current).raises
    /\ hist_image' = <<Paste(hist_image[1],
                             IF Decide = 1 THEN Green ELSE Current,
                             x_list[idx + 1], y_list[idx + 1])>>
    /\ calls' = IF mode = "predicted" THEN calls + 1 ELSE calls
    /\ idx' = idx + 1
    /\ steps' = steps \o <<"Decide", "Paste">>
    /\ UNCHANGED <<mode, dir, dst, model, pc, error, img_dir, x_list, y_list,
                   max_x, max_y, eval_mode, out_file, saves>>

\* hist_image.save(dst + ".png") and the return.
Save ==
    /\ pc = "loop" /\ LoopDone(idx, Len(img_dir))
    /\ saves' = saves + 1
    /\ out_file' = "complete"
    /\ pc' = "done"
    /\ steps' = steps \o <<"Persist", "Done">>
    /\ UNCHANGED <<mode, dir, dst, model, error, img_dir, x_list, y_list, max_x,
                   max_y, hist_image, idx, eval_mode, calls>>

\* hist_image.save raises ("SaveError": an OSError when the destination
\* cannot be written, or the encoder's own error when it refuses the image).
\* What it leaves at the destination is either nothing or a partial file.
SaveFail ==
    /\ pc = "loop" /\ LoopDone(idx, Len(img_dir))
    /\ saves' = saves + 1
    /\ out_file' \in {"absent", "partial"}
    /\ Raise("SaveError")
    /\ steps' = Append(steps, "Persist")
    /\ UNCHANGED <<mode, dir, dst, model, img_dir, x_list, y_list, max_x, max_y,
                   hist_image, idx, eval_mode, calls>>

Next ==
    \/ CheckArgs
    \/ ListDir
    \/ ListDirFail
    \/ Gather
    \/ OpenFail
    \/ ModelFail
    \/ PasteStep
    \/ Save
    \/ SaveFail

Spec == Init /\ [][Next]_vars

\* ------------------------------------------------- the parsing step alone
\* The gathering loop on a directory of one entry, the name drawn from the
\* names a lead, two digit strings, a class digit and an extension make.
ParseDigits == {"0", "5"}

DigitStrings == UNION { [1..n -> ParseDigits] : n \in 1..MaxDigits }

ParseLeads == {LeadX, LeadUX, <<"_">>, <<>>}

ParseExts == {Png, <<"p", "y">>, <<"j", "p", "e", "g">>}

Name120 == MkName(LeadX, <<"1", "2", "0">>, <<"3", "4", "0">>, "0", Png)

\* Names whose numbers are no integers, or that lack the y token.
NameNotInt == MkName(LeadX, <<"1", "a">>, <<"2">>, "0", Png)

NameNoY == LeadX \o <<"1", "2", "_", "3", "4">> \o Suffix("0", Png)

NameSwapped == <<"y", "1", "2", "_", "x", "3", "4">> \o Suffix("0", Png)

ParseNames ==
    { MkName(l, xd, yd, c, e) : l \in ParseLeads, xd \in DigitStrings,
                                yd \in DigitStrings, c \in {"0", "1"},
                                e \in ParseExts }
    \cup {Name120, NameUX, NameNotInt, NameNoY, NameSwapped}

InitParse ==
    /\ mode \in Modes
    /\ dir = "str_slash"
    /\ dst = "str"
    /\ model = "net"
    /\ pc = "gather"
    /\ error = ""
    /\ img_dir \in { <<n>> : n \in ParseNames }
    /\ x_list = <<>> /\ y_list = <<>> /\ max_x = 0 /\ max_y = 0
    /\ hist_image = <<>>
    /\ idx = 0
    /\ eval_mode = FALSE
    /\ calls = 0
    /\ out_file = "absent"
    /\ saves = 0
    /\ steps = <<"Enumerate">>

NextParse == Gather

SpecParse == InitParse /\ [][NextParse]_vars

\* ------------------------------------------------------ naming conventions
\* The first place from i on that holds no digit.
RECURSIVE RunEnd(_, _)
RunEnd(s, i) == IF i <= Len(s) /\ IsDigit(s[i]) THEN RunEnd(s, i + 1) ELSE i

\* The name is <lead><X>_y<Y>_class<C>.<ext>: X and Y runs of digits, C 0 or
\* 1, ext of three characters.
Conforms(s, lead) ==
    LET a == Len(lead) + 1
        b == RunEnd(s, a)
        c == b + 2
        d == RunEnd(s, c)
    IN  /\ Len(s) >= Len(lead) /\ SubSeq(s, 1, Len(lead)) = lead
        /\ b > a
        /\ Len(s) >= b + 1 /\ SubSeq(s, b, b + 1) = <<"_", "y">>
        /\ d > c
        /\ Len(s) = d + 10
        /\ SubSeq(s, d, d + 5) = <<"_", "c", "l", "a", "s", "s">>
        /\ s[d + 6] \in {"0", "1"}
        /\ s[d + 7] = "."

EmbeddedX(s, lead) == DigitsValue(SubSeq(s, Len(lead) + 1, RunEnd(s, Len(lead) + 1) - 1))

EmbeddedY(s, lead) ==
    LET c == RunEnd(s, Len(lead) + 1) + 2
    IN  DigitsValue(SubSeq(s, c, RunEnd(s, c) - 1))

Gathered == pc # "gather" /\ Len(img_dir) = 1

\* C1 (as stated): every name of the convention _x<X>_y<Y>_class<C>.<ext> is
\* parsed, by each build operation, to the pair (X, Y) it embeds.
C1_ParsesUnderscoreX ==
    (Gathered /\ Conforms(img_dir[1], LeadUX))
        => /\ pc = "loop"
           /\ x_list = <<EmbeddedX(img_dir[1], LeadUX)>>
           /\ y_list = <<EmbeddedY(img_dir[1], LeadUX)>>

\* C1 (amended): every name x<X>_y<Y>_class<C>.<ext>, the one leading
\* character directly followed by the digits of X and the extension of three
\* characters, is parsed by each build operation to the pair (X, Y) it embeds.
C1_ParsesLeadX ==
    (Gathered /\ Conforms(img_dir[1], LeadX))
        => /\ pc = "loop"
           /\ x_list = <<EmbeddedX(img_dir[1], LeadX)>>
           /\ y_list = <<EmbeddedY(img_dir[1], LeadX)>>

\* The name encoding x = 120, y = 340 has been parsed to (120, 340).
C1_Witness ==
    /\ pc = "loop" /\ img_dir = <<Name120>>
    /\ x_list = <<120>> /\ y_list = <<340>>

\* ------------------------------------------------------------------ claims
Range(q) == { q[i] : i \in 1..Len(q) }

Width == hist_image[1].size[1]

Height == hist_image[1].size[2]

Pastes == hist_image[1].pastes

\* A directory is well formed when each entry follows a naming convention.
WellFormed(names) ==
    \A i \in 1..Len(names) : Conforms(names[i], LeadX) \/ Conforms(names[i], LeadUX)

Inside(x, y) ==
    /\ 0 <= x /\ x + PatchSize <= Width
    /\ 0 <= y /\ y + PatchSize <= Height

\* C2: the canvas of a build over a non-empty well-formed directory holds
\* the full rectangle of every patch; the four class-0 patches of the 2 x 2
\* grid give, in the plain build, a 100 x 100 canvas with no white pixel.
C2_CanvasHoldsEveryPatch ==
    /\ (hist_image # <<>> /\ img_dir # <<>> /\ WellFormed(img_dir))
          => \A i \in 1..Len(img_dir) : Inside(x_list[i], y_list[i])
    /\ (pc = "done" /\ mode = "plain" /\ Range(img_dir) = GridNames)
          => /\ hist_image[1].size = <<2 * PatchSize, 2 * PatchSize>>
             /\ \A px \in 0..(Width - 1), py \in 0..(Height - 1) :
                    PixelAt(hist_image[1], px, py).src # White

DistinctPlaces ==
    \A i, j \in 1..Len(img_dir) :
        i # j => (x_list[i] # x_list[j] \/ y_list[i] # y_list[j])

\* C3: the ground-truth build of a well-formed directory of patches on
\* distinct places shows each class-1 patch as the full green block at its
\* place, and each class-0 patch as its own bitmap at its place.
C3_TrueLabelBlocks ==
    (pc = "done" /\ mode = "truelabel" /\ WellFormed(img_dir) /\ DistinctPlaces)
        => \A i \in 1..Len(img_dir) :
              /\ Inside(x_list[i], y_list[i])
              /\ \A dx \in 0..(PatchSize - 1), dy \in 0..(PatchSize - 1) :
                    PixelAt(hist_image[1], x_list[i] + dx, y_list[i] + dy) =
                        IF FromEnd(img_dir[i], ClassPos) = "1"
                        THEN [src |-> Green, dx |-> 0, dy |-> 0]
                        ELSE [src |-> img_dir[i], dx |-> dx, dy |-> dy]

Listed == Len(steps) > 0

\* C4: a build over an existing directory with no entries ends in the
\* failure EmptyInputError and leaves no file at the destination.
C4_EmptyInputError ==
    (Listed /\ img_dir = <<>> /\ pc \in {"done", "failed"})
        => pc = "failed" /\ error = "EmptyInputError" /\ out_file = "absent"

Malformed(img) == ~Conforms(img, LeadX) /\ ~Conforms(img, LeadUX)

\* C5: a directory with an entry that follows no naming convention makes
\* the build fail with a parse error before any canvas exists: no such entry
\* is accepted and given a place.
C5_MalformedRejected ==
    (pc \in {"loop", "done", "failed"} /\ \E i \in 1..Len(img_dir) : Malformed(img_dir[i]))
        => pc = "failed" /\ error = "ValueError" /\ hist_image = <<>>

FailedWith(errs) ==
    pc = "failed" /\ error \in errs /\ steps = <<>> /\ out_file = "absent"

\* C6: each build raises TypeError when dir or dst is no string and OSError
\* when dir is a string naming no directory (either, when both apply),
\* before the directory is listed and with nothing written.
C6_ArgumentErrors ==
    pc # "start" =>
        /\ ~IsStr(dir) => FailedWith({"TypeError"})
        /\ (IsStr(dir) /\ dir # "str_missing" /\ ~IsStr(dst)) => FailedWith({"TypeError"})
        /\ (dir = "str_missing" /\ IsStr(dst)) => FailedWith({"OSError"})
        /\ (dir = "str_missing" /\ ~IsStr(dst)) => FailedWith({"TypeError", "OSError"})

\* C7: in each build, once the canvas exists every entry has been parsed and
\* the canvas is at least as wide as every parsed x and as high as every
\* parsed y.
C7_CanvasAtLeastMax ==
    hist_image # <<>> =>
        /\ Len(x_list) = Len(img_dir) /\ Len(y_list) = Len(img_dir)
        /\ \A i \in 1..Len(img_dir) : Width >= x_list[i] /\ Height >= y_list[i]

\* A canvas of 50 x 50 made from the four patches of the grid.
C7_Witness ==
    /\ hist_image # <<>> /\ Range(img_dir) = GridNames
    /\ hist_image[1].size = <<50, 50>>
    /\ \E i \in 1..Len(img_dir) : x_list[i] = 50 /\ y_list[i] = 50

IsPrefix(a, b) == Len(a) <= Len(b) /\ SubSeq(b, 1, Len(a)) = a

RECURSIVE Repeat(_, _)
Repeat(q, n) == IF n <= 0 THEN <<>> ELSE q \o Repeat(q, n - 1)

\* The stages of a whole run over n patches.
FullRun(n) ==
    <<"Enumerate", "ComputeCanvasSize">> \o Repeat(<<"Decide", "Paste">>, n)
        \o <<"Persist", "Done">>

Persisted == \E i \in 1..Len(steps) : steps[i] = "Persist"

\* C8: the stages of every run are passed in the order Enumerate,
\* ComputeCanvasSize, Decide and Paste for each patch, Persist, Done; the
\* canvas is saved at most once and only after every listed patch has been
\* pasted; a run that fails before Persist has saved nothing and leaves no
\* file at the destination.
C8_StageOrder ==
    /\ IsPrefix(steps, FullRun(Len(img_dir)))
    /\ saves <= 1
    /\ saves = (IF Persisted THEN 1 ELSE 0)
    /\ Persisted => /\ idx = Len(img_dir)
                    /\ Len(Pastes) = Len(img_dir)
    /\ (pc = "failed" /\ ~Persisted) => out_file = "absent"
    /\ ~Persisted => out_file = "absent"
    /\ pc = "done" => /\ steps = FullRun(Len(img_dir))
                      /\ out_file = "complete"

\* A predicted build whose classifier failed on the third patch: two patches
\* pasted, nothing saved.
C8_Witness ==
    /\ pc = "failed" /\ error = "RuntimeError" /\ idx = 2
    /\ Len(Pastes) = 2 /\ saves = 0 /\ out_file = "absent"

\* The k-th paste of a predicted build follows the classifier's output on
\* the k-th entry by the test green(out).
FollowsModel(k, green(_)) ==
    LET out == ModelOut(model, img_dir[k])
        p   == Pastes[k]
    IN  /\ ~out.raises
        /\ p.x = x_list[k] /\ p.y = y_list[k]
        /\ p.src = (IF green(out) THEN Green ELSE img_dir[k])

SigmoidAboveHalf(out) == ~out.nan /\ Sigmoid(out.logit) > Half

LogitPositive(out) == ~out.nan /\ out.logit > 0

PredictedFrame ==
    /\ hist_image # <<>> => eval_mode
    /\ calls > 0 => eval_mode
    /\ pc \in {"loop", "done"} => calls = idx
    /\ pc = "done" => calls = Len(img_dir)
    /\ (pc = "failed" /\ error = "RuntimeError")
          => /\ ModelOut(model, img_dir[idx + 1]).raises
             /\ Len(Pastes) = idx
             /\ calls = idx + 1
             /\ out_file = "absent"
    /\ pc = "done" => \A k \in 1..Len(img_dir) : ~ModelOut(model, img_dir[k]).raises

\* C9 (as stated): in the predicted build the classifier is in inference
\* mode before the loop and is called once per patch; a patch is replaced
\* by the green block exactly when its first logit is positive, which is
\* when the sigmoid exceeds 0.5; a failing call ends the run as a failure.
C9_GreenIffLogitPositive ==
    mode = "predicted" =>
        /\ PredictedFrame
        /\ hist_image # <<>> =>
              \A k \in 1..Len(Pastes) : FollowsModel(k, LogitPositive)

\* C9 (amended): as above, but a patch is replaced by the green block
\* exactly when the float32 sigmoid of its first logit exceeds 0.5; a green
\* block implies a positive logit, not the converse.
C9_GreenIffSigmoidAboveHalf ==
    mode = "predicted" =>
        /\ PredictedFrame
        /\ hist_image # <<>> =>
              \A k \in 1..Len(Pastes) :
                  /\ FollowsModel(k, SigmoidAboveHalf)
                  /\ Pastes[k].src = Green => ModelOut(model, img_dir[k]).logit > 0

\* A finished predicted build of four patches, one call each, with a green
\* block and an original patch on the canvas.
C9_Witness ==
    /\ pc = "done" /\ mode = "predicted" /\ calls = 4 /\ Len(img_dir) = 4
    /\ \E k \in 1..4 : Pastes[k].src = Green
    /\ \E k \in 1..4 : Pastes[k].src = img_dir[k]

\* ASCII order of the characters of the names.
CharOrder ==
    <<".", "0", "1", "2", "3", "4", "5", "6", "7", "8", "9", "_",
      "a", "c", "e", "g", "j", "l", "n", "p", "s", "x", "y">>

Rank(c) == CHOOSE r \in 1..Len(CharOrder) : CharOrder[r] = c

RECURSIVE Less(_, _)
Less(a, b) ==
    IF Len(b) = 0 THEN FALSE
    ELSE IF Len(a) = 0 THEN TRUE
    ELSE IF a[1] # b[1] THEN Rank(a[1]) < Rank(b[1])
    ELSE Less(Tail(a), Tail(b))

RECURSIVE SortedSeq(_)
SortedSeq(S) ==
    IF S = {} THEN <<>>
    ELSE LET m == CHOOSE a \in S : \A b \in S \ {a} : Less(a, b)
         IN  <<m>> \o SortedSeq(S \ {m})

RECURSIVE PasteAll(_, _, _)
PasteAll(image, names, i) ==
    IF i > Len(names) THEN image
    ELSE PasteAll(Paste(image, IF DecideFor(names[i]) = 1 THEN Green ELSE names[i],
                        Parse(names[i]).x, Parse(names[i]).y),
                  names, i + 1)

\* The canvas a run over the same entries makes when it pastes them in the
\* order of their names.
SortedCanvas == PasteAll(NewImage(Width, Height), SortedSeq(Range(img_dir)), 1)

\* C10: the finished canvas of a well-formed directory does not depend on
\* the order of the listing: it is the canvas of the run that pastes the
\* entries sorted by name, the later paste winning where two overlap.
C10_ListingOrderIrrelevant ==
    (pc = "done" /\ WellFormed(img_dir)) =>
        LET ref == SortedCanvas
        IN  \A px \in 0..(Width - 1), py \in 0..(Height - 1) :
                PixelAt(hist_image[1], px, py) = PixelAt(ref, px, py)

====
